---------------------------- MODULE Spec2Model ----------------------------
(***************************************************************************)
(* CareerMate: a dispatcher agent that hands a request off to one of three *)
(* specialist agents, each with one tool reading the shared CareerContext, *)
(* driven either by the Streamlit chat page (career_mate_app.py) or by the *)
(* console demo main() (Assinment4_agent.py).                              *)
(*                                                                         *)
(* Python strings are sequences of one-character strings, so that lower(), *)
(* strip(), split(), replace() and the substring test are computed         *)
(* character by character.                                                 *)
(***************************************************************************)
EXTENDS Naturals, Sequences, FiniteSets, TLC

(***************************************************************************)
(* Bounds of the model.                                                    *)
(***************************************************************************)
\* LLM invocations per Runner.run before MaxTurnsExceeded is raised.
MaxTurns == 3
\* Chat messages submitted in one browser session.
MaxMessages == 2

(***************************************************************************)
(* String literals of the source.                                          *)
(***************************************************************************)
\* Role keys of JOB_SKILLS.
s_data_scientist == <<"d", "a", "t", "a", " ", "s", "c", "i", "e", "n", "t", "i", "s", "t">>
s_software_engineer == <<"s", "o", "f", "t", "w", "a", "r", "e", " ", "e", "n", "g", "i", "n", "e", "e", "r">>
s_product_manager == <<"p", "r", "o", "d", "u", "c", "t", " ", "m", "a", "n", "a", "g", "e", "r">>
s_ux_designer == <<"u", "x", " ", "d", "e", "s", "i", "g", "n", "e", "r">>

\* Skill names of JOB_SKILLS and JOB_LISTINGS.
s_Python == <<"P", "y", "t", "h", "o", "n">>
s_SQL == <<"S", "Q", "L">>
s_Statistics == <<"S", "t", "a", "t", "i", "s", "t", "i", "c", "s">>
s_Machine_Learning == <<"M", "a", "c", "h", "i", "n", "e", " ", "L", "e", "a", "r", "n", "i", "n", "g">>
s_Pandas == <<"P", "a", "n", "d", "a", "s">>
s_Scikit_learn == <<"S", "c", "i", "k", "i", "t", "-", "l", "e", "a", "r", "n">>
s_Java == <<"J", "a", "v", "a">>
s_Data_Structures == <<"D", "a", "t", "a", " ", "S", "t", "r", "u", "c", "t", "u", "r", "e", "s">>
s_Algorithms == <<"A", "l", "g", "o", "r", "i", "t", "h", "m", "s">>
s_Git == <<"G", "i", "t">>
s_Docker == <<"D", "o", "c", "k", "e", "r">>
s_Product_Strategy == <<"P", "r", "o", "d", "u", "c", "t", " ", "S", "t", "r", "a", "t", "e", "g", "y">>
s_User_Research == <<"U", "s", "e", "r", " ", "R", "e", "s", "e", "a", "r", "c", "h">>
s_Agile_Methodologies == <<"A", "g", "i", "l", "e", " ", "M", "e", "t", "h", "o", "d", "o", "l", "o", "g", "i", "e", "s">>
s_Roadmapping == <<"R", "o", "a", "d", "m", "a", "p", "p", "i", "n", "g">>
s_Figma == <<"F", "i", "g", "m", "a">>
s_Wireframing == <<"W", "i", "r", "e", "f", "r", "a", "m", "i", "n", "g">>
s_Prototyping == <<"P", "r", "o", "t", "o", "t", "y", "p", "i", "n", "g">>
s_Interaction_Design == <<"I", "n", "t", "e", "r", "a", "c", "t", "i", "o", "n", " ", "D", "e", "s", "i", "g", "n">>
s_TensorFlow == <<"T", "e", "n", "s", "o", "r", "F", "l", "o", "w">>
s_Kubernetes == <<"K", "u", "b", "e", "r", "n", "e", "t", "e", "s">>
s_A_B_Testing == <<"A", "/", "B", " ", "T", "e", "s", "t", "i", "n", "g">>

\* Titles and locations of JOB_LISTINGS.
s_Senior_Data_Scientist == <<"S", "e", "n", "i", "o", "r", " ", "D", "a", "t", "a", " ", "S", "c", "i", "e", "n", "t", "i", "s", "t">>
s_Backend_Software_Engineer == <<"B", "a", "c", "k", "e", "n", "d", " ", "S", "o", "f", "t", "w", "a", "r", "e", " ", "E", "n", "g", "i", "n", "e", "e", "r">>
s_Junior_Data_Scientist == <<"J", "u", "n", "i", "o", "r", " ", "D", "a", "t", "a", " ", "S", "c", "i", "e", "n", "t", "i", "s", "t">>
s_Product_Manager_Growth == <<"P", "r", "o", "d", "u", "c", "t", " ", "M", "a", "n", "a", "g", "e", "r", ",", " ", "G", "r", "o", "w", "t", "h">>
s_Remote == <<"R", "e", "m", "o", "t", "e">>
s_New_York_NY == <<"N", "e", "w", " ", "Y", "o", "r", "k", ",", " ", "N", "Y">>
s_San_Francisco_CA == <<"S", "a", "n", " ", "F", "r", "a", "n", "c", "i", "s", "c", "o", ",", " ", "C", "A">>

\* Keys of COURSE_CATALOG.
s_sql == <<"s", "q", "l">>
s_statistics == <<"s", "t", "a", "t", "i", "s", "t", "i", "c", "s">>
s_pandas == <<"p", "a", "n", "d", "a", "s">>
s_python == <<"p", "y", "t", "h", "o", "n">>
\* Prefix of the application link built by find_jobs.
s_link_prefix == <<"h", "t", "t", "p", "s", ":", "/", "/", "e", "x", "a", "m", "p", "l", "e", ".", "c", "o", "m", "/", "j", "o", "b", "s", "/">>

(***************************************************************************)
(* Python built-ins used by the source.                                    *)
(***************************************************************************)
\* Python's None, and Optional values: <<>> is None, <<v>> is the value v.
None == <<>>

Some(v) == <<v>>

Range(s) == {s[i] : i \in DOMAIN s}

UpperCase == <<"A", "B", "C", "D", "E", "F", "G", "H", "I", "J", "K", "L", "M",
               "N", "O", "P", "Q", "R", "S", "T", "U", "V", "W", "X", "Y", "Z">>

LowerCase == <<"a", "b", "c", "d", "e", "f", "g", "h", "i", "j", "k", "l", "m",
               "n", "o", "p", "q", "r", "s", "t", "u", "v", "w", "x", "y", "z">>

Whitespace == {" ", "\t", "\n", "\r"}

LowerChar(c) ==
    IF \E i \in DOMAIN UpperCase : UpperCase[i] = c
    THEN LowerCase[CHOOSE i \in DOMAIN UpperCase : UpperCase[i] = c]
    ELSE c

\* str.lower()
lower(s) == [i \in 1..Len(s) |-> LowerChar(s[i])]

\* str.replace(old, new) for one-character old and new
replace(s, old, new) == [i \in 1..Len(s) |-> IF s[i] = old THEN new ELSE s[i]]

\* needle in hay, for strings
contains(hay, needle) ==
    \E i \in 0..Len(hay) :
        /\ i + Len(needle) <= Len(hay)
        /\ SubSeq(hay, i + 1, i + Len(needle)) = needle

\* str.strip()
RECURSIVE lstrip(_)
lstrip(s) == IF s # <<>> /\ Head(s) \in Whitespace THEN lstrip(Tail(s)) ELSE s

RECURSIVE rstrip(_)
rstrip(s) ==
    IF s # <<>> /\ s[Len(s)] \in Whitespace
    THEN rstrip(SubSeq(s, 1, Len(s) - 1))
    ELSE s

strip(s) == rstrip(lstrip(s))

\* str.split(sep) for a one-character separator: "" gives [""]
RECURSIVE split(_, _)
split(s, sep) ==
    IF \E i \in DOMAIN s : s[i] = sep
    THEN LET i == CHOOSE k \in DOMAIN s :
                      s[k] = sep /\ \A j \in 1..(k - 1) : s[j] # sep
         IN  <<SubSeq(s, 1, i - 1)>> \o split(SubSeq(s, i + 1, Len(s)), sep)
    ELSE <<s>>

\* dict.get(key): None when the key is absent
get(d, key) == IF key \in DOMAIN d THEN Some(d[key]) ELSE None

\* json.dumps / model_dump_json of a dict, json.dumps of a list, and a str
Dict(fields) == [is |-> "dict", v |-> fields]

List(items) == [is |-> "list", v |-> items]

Str(text) == [is |-> "str", v |-> text]

(***************************************************************************)
(* The static tables.                                                      *)
(***************************************************************************)
JOB_SKILLS ==
    (s_data_scientist :> <<s_Python, s_SQL, s_Statistics, s_Machine_Learning,
                           s_Pandas, s_Scikit_learn>>) @@
    (s_software_engineer :> <<s_Python, s_Java, s_Data_Structures, s_Algorithms,
                              s_Git, s_Docker>>) @@
    (s_product_manager :> <<s_Product_Strategy, s_User_Research,
                            s_Agile_Methodologies, s_Roadmapping>>) @@
    (s_ux_designer :> <<s_Figma, s_User_Research, s_Wireframing, s_Prototyping,
                        s_Interaction_Design>>)

JOB_LISTINGS == <<
    [title |-> s_Senior_Data_Scientist, company |-> "Innovate AI",
     location |-> s_Remote,
     skills |-> <<s_Python, s_Machine_Learning, s_TensorFlow>>],
    [title |-> s_Backend_Software_Engineer, company |-> "Tech Solutions Inc.",
     location |-> s_New_York_NY,
     skills |-> <<s_Python, s_Java, s_Docker, s_Kubernetes>>],
    [title |-> s_Junior_Data_Scientist, company |-> "Data Insights Co.",
     location |-> s_San_Francisco_CA,
     skills |-> <<s_Python, s_SQL, s_Pandas>>],
    [title |-> s_Product_Manager_Growth, company |-> "ConnectApp",
     location |-> s_Remote,
     skills |-> <<s_Product_Strategy, s_Agile_Methodologies, s_A_B_Testing>>] >>

COURSE_CATALOG ==
    (s_sql :> << [title |-> "Complete SQL Bootcamp", platform |-> "Udemy",
                  link |-> "udemy.com/course/sql-bootcamp"] >>) @@
    (s_statistics :> << [title |-> "Statistics with Python", platform |-> "Coursera",
                         link |-> "coursera.org/specializations/statistics-with-python"] >>) @@
    (s_pandas :> << [title |-> "Data Analysis with Pandas", platform |-> "DataCamp",
                     link |-> "datacamp.com/courses/data-manipulation-with-pandas"] >>) @@
    (s_python :> << [title |-> "Python for Everybody", platform |-> "Coursera",
                     link |-> "coursera.org/specializations/python"] >>)

\* The module globals as the running program holds them.
Tables == [JOB_SKILLS |-> JOB_SKILLS, JOB_LISTINGS |-> JOB_LISTINGS,
           COURSE_CATALOG |-> COURSE_CATALOG]

(***************************************************************************)
(* Pydantic models: an instance is its class name with its field values.   *)
(***************************************************************************)
SkillGapAnalysis(target_job, user_skills, required_skills, missing_skills, notes) ==
    [is |-> "SkillGapAnalysis",
     v |-> [target_job |-> target_job, user_skills |-> user_skills,
            required_skills |-> required_skills,
            missing_skills |-> missing_skills, notes |-> notes]]

JobListing(job_title, company, location, required_skills, link_to_apply) ==
    [is |-> "JobListing",
     v |-> [job_title |-> job_title, company |-> company, location |-> location,
            required_skills |-> required_skills, link_to_apply |-> link_to_apply]]

CourseRecommendation(skill_to_learn, course_title, platform, link) ==
    [is |-> "CourseRecommendation",
     v |-> [skill_to_learn |-> skill_to_learn, course_title |-> course_title,
            platform |-> platform, link |-> link]]

\* BaseModel.model_dump(): the instance's fields as a dict
model_dump(instance) == instance.v

\* CareerContext
CareerContext(user_id, current_skills) ==
    [user_id |-> user_id, current_skills |-> current_skills]

(***************************************************************************)
(* The tools.  Each returns the JSON text it hands back, as the value the  *)
(* text encodes.                                                           *)
(***************************************************************************)
get_missing_skills_CaseSensitive(context, tbl, target_job) ==
    LET user_skills == context.current_skills
        required_skills == get(tbl.JOB_SKILLS, target_job)
    IN  IF required_skills = None \/ required_skills[1] = <<>>
        THEN Dict([error |-> [message |-> "no skill information", role |-> target_job]])
        ELSE LET Missing(skill) == skill \notin Range(user_skills)
                 missing_skills == SelectSeq(required_skills[1], Missing)
             IN  Dict(model_dump(SkillGapAnalysis(
                     target_job, user_skills, required_skills[1], missing_skills,
                     IF missing_skills # <<>>
                     THEN [text |-> "good foundation", n |-> Len(missing_skills)]
                     ELSE [text |-> "all required skills", n |-> 0])))

get_missing_skills_Unfiltered(context, tbl, target_job) ==
    LET target_job_lower == lower(target_job)
        user_skills == context.current_skills
        required_skills == get(tbl.JOB_SKILLS, target_job_lower)
    IN  IF required_skills = None \/ required_skills[1] = <<>>
        THEN Dict([error |-> [message |-> "no skill information", role |-> target_job]])
        ELSE LET missing_skills == required_skills[1]
             IN  Dict(model_dump(SkillGapAnalysis(
                     target_job, user_skills, required_skills[1], missing_skills,
                     IF missing_skills # <<>>
                     THEN [text |-> "good foundation", n |-> Len(missing_skills)]
                     ELSE [text |-> "all required skills", n |-> 0])))

get_missing_skills(context, tbl, target_job) ==
    LET target_job_lower == lower(target_job)
        user_skills == context.current_skills
        required_skills == get(tbl.JOB_SKILLS, target_job_lower)
    IN  IF required_skills = None \/ required_skills[1] = <<>>
        THEN Dict([error |-> [message |-> "no skill information", role |-> target_job]])
        ELSE LET Missing(skill) == skill \notin Range(user_skills)
                 missing_skills == SelectSeq(required_skills[1], Missing)
             IN  Dict(model_dump(SkillGapAnalysis(
                     target_job, user_skills, required_skills[1], missing_skills,
                     IF missing_skills # <<>>
                     THEN [text |-> "good foundation", n |-> Len(missing_skills)]
                     ELSE [text |-> "all required skills", n |-> 0])))

\* The for loop of find_jobs over JOB_LISTINGS, appending to matching_jobs.
RECURSIVE find_jobs_loop(_, _, _, _)
find_jobs_loop(jobs, user_skills, location, matching_jobs) ==
    IF jobs = <<>>
    THEN matching_jobs
    ELSE LET job == Head(jobs)
         IN  IF /\ location # None
                /\ location[1] # <<>>
                /\ ~contains(lower(job.location), lower(location[1]))
             THEN find_jobs_loop(Tail(jobs), user_skills, location, matching_jobs)
             ELSE IF \E skill \in Range(user_skills) : skill \in Range(job.skills)
                  THEN find_jobs_loop(Tail(jobs), user_skills, location,
                           Append(matching_jobs, model_dump(JobListing(
                               job.title, job.company, job.location, job.skills,
                               s_link_prefix \o lower(replace(job.title, " ", "-"))))))
                  ELSE find_jobs_loop(Tail(jobs), user_skills, location, matching_jobs)

find_jobs_NoSkillsCheck(context, tbl, location) ==
    List(find_jobs_loop(tbl.JOB_LISTINGS, context.current_skills, location, <<>>))

find_jobs(context, tbl, location) ==
    LET user_skills == context.current_skills
    IN  IF user_skills = <<>>
        THEN Dict([error |-> [message |-> "skills required"]])
        ELSE List(find_jobs_loop(tbl.JOB_LISTINGS, user_skills, location, <<>>))

\* The inner for loop of recommend_courses over the courses of one skill.
RECURSIVE recommend_courses_inner(_, _, _)
recommend_courses_inner(skill, courses, recommendations) ==
    IF courses = <<>>
    THEN recommendations
    ELSE LET course == Head(courses)
         IN  recommend_courses_inner(skill, Tail(courses),
                 Append(recommendations, model_dump(CourseRecommendation(
                     skill, course.title, course.platform, course.link))))

\* The outer for loop of recommend_courses over missing_skills.
RECURSIVE recommend_courses_loop(_, _, _)
recommend_courses_loop(tbl, missing_skills, recommendations) ==
    IF missing_skills = <<>>
    THEN recommendations
    ELSE LET skill == Head(missing_skills)
             courses == get(tbl.COURSE_CATALOG, lower(skill))
         IN  IF courses # None /\ courses[1] # <<>>
             THEN recommend_courses_loop(tbl, Tail(missing_skills),
                      recommend_courses_inner(skill, courses[1], recommendations))
             ELSE recommend_courses_loop(tbl, Tail(missing_skills), recommendations)

recommend_courses_ErrorWhenEmpty(tbl, missing_skills) ==
    LET recommendations == recommend_courses_loop(tbl, missing_skills, <<>>)
    IN  IF recommendations = <<>>
        THEN Dict([error |-> [message |-> "no courses found"]])
        ELSE List(recommendations)

recommend_courses(tbl, missing_skills) ==
    List(recommend_courses_loop(tbl, missing_skills, <<>>))

(***************************************************************************)
(* The agents.                                                             *)
(***************************************************************************)
skill_gap_agent == "Skill Gap Agent"

job_finder_agent == "Job Finder Agent"

course_recommender_agent == "Course Recommender Agent"

conversation_agent == "CareerMate Conversation Agent"

Agents == {skill_gap_agent, job_finder_agent, course_recommender_agent,
           conversation_agent}

ToolNames == {"get_missing_skills", "find_jobs", "recommend_courses"}

\* Agent.tools
tools(agent) ==
    CASE agent = skill_gap_agent -> {"get_missing_skills"}
      [] agent = job_finder_agent -> {"find_jobs"}
      [] agent = course_recommender_agent -> {"recommend_courses"}
      [] OTHER -> {}

handoffs_SpecialistHandsOff(agent) ==
    CASE agent = conversation_agent ->
             {skill_gap_agent, job_finder_agent, course_recommender_agent}
      [] agent = skill_gap_agent -> {course_recommender_agent}
      [] OTHER -> {}

\* Agent.handoffs
handoffs(agent) ==
    IF agent = conversation_agent
    THEN {skill_gap_agent, job_finder_agent, course_recommender_agent}
    ELSE {}

\* Agent.output_type; "str" when none is declared
output_type(agent) ==
    CASE agent = skill_gap_agent -> "SkillGapAnalysis"
      [] agent = job_finder_agent -> "List[JobListing]"
      [] agent = course_recommender_agent -> "List[CourseRecommendation]"
      [] OTHER -> "str"

\* The fields each model class requires.
Fields(class) ==
    CASE class = "SkillGapAnalysis" ->
             {"target_job", "user_skills", "required_skills", "missing_skills", "notes"}
      [] class = "JobListing" ->
             {"job_title", "company", "location", "required_skills", "link_to_apply"}
      [] class = "CourseRecommendation" ->
             {"skill_to_learn", "course_title", "platform", "link"}

\* Whether a JSON value validates as an instance of the class.
IsInstanceJson(class, value) ==
    value.is = "dict" /\ Fields(class) \subseteq DOMAIN value.v

\* Validation of the final answer against the agent's output type: the
\* typed value, or None when validation fails.
validate(type, answer) ==
    CASE type = "str" ->
             Some(Str(IF answer.is = "str" THEN answer.v ELSE "json text"))
      [] type = "SkillGapAnalysis" ->
             IF IsInstanceJson("SkillGapAnalysis", answer)
             THEN Some([is |-> "SkillGapAnalysis", v |-> answer.v])
             ELSE None
      [] type = "List[JobListing]" ->
             IF /\ answer.is = "list"
                /\ \A i \in DOMAIN answer.v :
                       IsInstanceJson("JobListing", Dict(answer.v[i]))
             THEN Some(List([i \in DOMAIN answer.v |->
                                [is |-> "JobListing", v |-> answer.v[i]]]))
             ELSE None
      [] type = "List[CourseRecommendation]" ->
             IF /\ answer.is = "list"
                /\ \A i \in DOMAIN answer.v :
                       IsInstanceJson("CourseRecommendation", Dict(answer.v[i]))
             THEN Some(List([i \in DOMAIN answer.v |->
                                [is |-> "CourseRecommendation", v |-> answer.v[i]]]))
             ELSE None

(***************************************************************************)
(* Inputs: what the user types and what the language model may ask for.    *)
(***************************************************************************)
NL == <<"\n">>

\* Texts of the skills text area.
SkillsTexts ==
    { <<>>,
      s_Python \o NL \o s_Git \o NL \o s_Data_Structures,
      <<" ">> \o s_Python \o <<" ">> \o NL \o NL \o s_Python \o <<"\t">>,
      s_Product_Strategy \o NL \o s_Roadmapping \o NL \o s_User_Research
          \o NL \o s_Agile_Methodologies \o NL \o s_sql \o NL }

\* Chat messages.
Messages == {"Find me a job"}

\* target_job arguments of get_missing_skills.
TargetJobs ==
    { s_data_scientist,
      <<"P", "r", "o", "d", "u", "c", "t", " ", "M", "a", "n", "a", "g", "e", "r">>,
      <<"a", "s", "t", "r", "o", "n", "a", "u", "t">> }

\* location arguments of find_jobs.
Locations ==
    { None, Some(<<>>), Some(<<"n", "y">>), Some(<<"L", "o", "n", "d", "o", "n">>) }

\* missing_skills arguments of recommend_courses.
SkillLists ==
    { <<s_SQL, <<"C", "o", "b", "o", "l">>, s_pandas>>,
      <<s_Pandas, s_SQL>>,
      << <<"C", "o", "b", "o", "l">> >> }

Arguments(tool) ==
    CASE tool = "get_missing_skills" -> TargetJobs
      [] tool = "find_jobs" -> Locations
      [] tool = "recommend_courses" -> SkillLists

(***************************************************************************)
(* State.                                                                  *)
(***************************************************************************)
VARIABLES
    entry,               \* the program running: "career_mate_app" or "main"
    user_context,        \* the CareerContext of the session
    tables,              \* JOB_SKILLS, JOB_LISTINGS, COURSE_CATALOG
    chat_history,        \* st.session_state.chat_history
    processing_message,  \* st.session_state.processing_message
    new_conversation,    \* whether Start New Conversation has been clicked
    submitted,           \* chat messages submitted so far
    run,                 \* the Runner.run call in progress and its result
    query_index,         \* main: index of the next query
    unhandled            \* whether an exception has left the program unhandled

vars == <<entry, user_context, tables, chat_history, processing_message,
          new_conversation, submitted, run, query_index, unhandled>>

\* No Runner.run call is in progress.
NoRun ==
    [phase |-> "idle", input |-> "", current_agent |-> conversation_agent,
     turns |-> 0, agents |-> <<>>, tool_calls |-> <<>>, final_output |-> None,
     error |-> ""]

\* Runner.run(conversation_agent, input, context=...) has been entered.
StartRun(input) ==
    [phase |-> "running", input |-> input, current_agent |-> conversation_agent,
     turns |-> 0, agents |-> <<conversation_agent>>, tool_calls |-> <<>>,
     final_output |-> None, error |-> ""]

\* The run ends by raising.
Raise(error) == [run EXCEPT !.phase = "raised", !.error = error]

\* The queries of main.
queries ==
    << "I want to become a data scientist. What skills am I missing?",
       "Can you help me find a job with my current skills?",
       "How can I learn SQL and Pandas?",
       "Hi there! What can you do?" >>

Init ==
    /\ entry \in {"career_mate_app", "main"}
    /\ user_context =
           IF entry = "main"
           THEN CareerContext("test_user_01", <<s_Python, s_Git, s_Data_Structures>>)
           ELSE CareerContext("uuid4", <<>>)
    /\ tables = Tables
    /\ chat_history = <<>>
    /\ processing_message = None
    /\ new_conversation = FALSE
    /\ submitted = 0
    /\ run = NoRun
    /\ query_index = 1
    /\ unhandled = FALSE

(***************************************************************************)
(* Runner.run: the loop of the agents library over the language model's    *)
(* responses.                                                              *)
(***************************************************************************)
\* A declared tool runs and its output is recorded for the next response.
InvokeTool_ExtendsSkills(tool, arg) ==
    LET output ==
            CASE tool = "get_missing_skills" ->
                     get_missing_skills(user_context, tables, arg)
              [] tool = "find_jobs" -> find_jobs(user_context, tables, arg)
              [] tool = "recommend_courses" -> recommend_courses(tables, arg)
    IN  /\ run' = [run EXCEPT !.turns = @ + 1,
                              !.tool_calls = Append(@,
                                  [agent |-> run.current_agent, tool |-> tool,
                                   arguments |-> arg, output |-> output])]
        /\ user_context' =
               IF output.is = "dict" /\ "missing_skills" \in DOMAIN output.v
               THEN [user_context EXCEPT
                         !.current_skills = @ \o output.v.missing_skills]
               ELSE user_context
        /\ UNCHANGED tables

InvokeTool(tool, arg) ==
    LET output ==
            CASE tool = "get_missing_skills" ->
                     get_missing_skills(user_context, tables, arg)
              [] tool = "find_jobs" -> find_jobs(user_context, tables, arg)
              [] tool = "recommend_courses" -> recommend_courses(tables, arg)
    IN  /\ run' = [run EXCEPT !.turns = @ + 1,
                              !.tool_calls = Append(@,
                                  [agent |-> run.current_agent, tool |-> tool,
                                   arguments |-> arg, output |-> output])]
        /\ UNCHANGED <<user_context, tables>>

\* The model asks for a tool; one the current agent does not declare is a
\* ModelBehaviorError.
LLMCallsTool ==
    /\ run.phase = "running"
    /\ run.turns < MaxTurns
    /\ \E tool \in ToolNames :
           IF tool \in tools(run.current_agent)
           THEN \E arg \in Arguments(tool) : InvokeTool(tool, arg)
           ELSE /\ run' = Raise("ModelBehaviorError")
                /\ UNCHANGED <<user_context, tables>>
    /\ UNCHANGED <<entry, chat_history, processing_message, new_conversation,
                   submitted, query_index, unhandled>>

\* The model asks for a handoff; one the current agent does not declare is a
\* ModelBehaviorError.
LLMHandsOff ==
    /\ run.phase = "running"
    /\ run.turns < MaxTurns
    /\ \E target \in Agents :
           IF target \in handoffs(run.current_agent)
           THEN run' = [run EXCEPT !.turns = @ + 1,
                                   !.current_agent = target,
                                   !.agents = Append(@, target)]
           ELSE run' = Raise("ModelBehaviorError")
    /\ UNCHANGED <<entry, user_context, tables, chat_history, processing_message,
                   new_conversation, submitted, query_index, unhandled>>

\* Runner.run validates a final answer against the current agent's output
\* type: it ends the run, or is a ModelBehaviorError.
FinalOutput(answer) ==
    LET final_output == validate(output_type(run.current_agent), answer)
    IN  IF final_output = None
        THEN run' = Raise("ModelBehaviorError")
        ELSE run' = [run EXCEPT !.turns = @ + 1, !.phase = "completed",
                                !.final_output = final_output]

\* The model gives a final answer: prose, an empty JSON list, or the output
\* of a tool it called.
LLMFinalOutput ==
    /\ run.phase = "running"
    /\ run.turns < MaxTurns
    /\ \/ FinalOutput(Str("reply"))
       \/ FinalOutput(List(<<>>))
       \/ \E i \in DOMAIN run.tool_calls : FinalOutput(run.tool_calls[i].output)
    /\ UNCHANGED <<entry, user_context, tables, chat_history, processing_message,
                   new_conversation, submitted, query_index, unhandled>>

\* The call to the model fails.
LLMFails ==
    /\ run.phase = "running"
    /\ run.turns < MaxTurns
    /\ run' = Raise("APIConnectionError")
    /\ UNCHANGED <<entry, user_context, tables, chat_history, processing_message,
                   new_conversation, submitted, query_index, unhandled>>

\* The loop has used all its turns.
MaxTurnsExceeded ==
    /\ run.phase = "running"
    /\ run.turns = MaxTurns
    /\ run' = Raise("MaxTurnsExceeded")
    /\ UNCHANGED <<entry, user_context, tables, chat_history, processing_message,
                   new_conversation, submitted, query_index, unhandled>>

(***************************************************************************)
(* career_mate_app.py: one action per run of the page script.  The script  *)
(* handles the sidebar buttons first, then the chat input, then the        *)
(* pending message; each of the first three ends the run with st.rerun().  *)
(***************************************************************************)
\* key in x, for the dicts and the model instances format_agent_response
\* meets: a model instance iterates as (name, value) pairs, which no field
\* name equals.
In(key, x) == x.is = "dict" /\ key \in DOMAIN x.v

\* The text format_agent_response builds, by the branch that builds it.
format_agent_response(final_output) ==
    LET output == IF final_output.is = "SkillGapAnalysis"
                  THEN Dict(model_dump(final_output))
                  ELSE final_output
    IN  IF output.is = "dict" /\ In("missing_skills", output)
        THEN "Skill Gap Analysis html"
        ELSE IF output.is = "list" /\ output.v # <<>> /\ In("job_title", output.v[1])
             THEN "job opportunities html"
             ELSE IF /\ output.is = "list"
                     /\ output.v # <<>>
                     /\ In("course_title", output.v[1])
                  THEN "courses html"
                  ELSE "str(output)"

handle_user_message(user_input) ==
    /\ chat_history' = Append(chat_history, [role |-> "user", content |-> user_input])
    /\ processing_message' = Some(user_input)

\* The Save Skills button: the text area split into stripped non-empty lines.
SaveSkills(skills_text) ==
    LET lines == split(skills_text, "\n")
        NonEmpty(skill) == strip(skill) # <<>>
        kept == SelectSeq(lines, NonEmpty)
    IN  /\ entry = "career_mate_app"
        /\ run.phase = "idle"
        /\ user_context' = [user_context EXCEPT
               !.current_skills = [i \in 1..Len(kept) |-> strip(kept[i])]]
        /\ UNCHANGED <<entry, tables, chat_history, processing_message,
                       new_conversation, submitted, run, query_index, unhandled>>

\* The Start New Conversation button.
StartNewConversation ==
    /\ entry = "career_mate_app"
    /\ run.phase = "idle"
    /\ chat_history' = <<>>
    /\ new_conversation' = TRUE
    /\ UNCHANGED <<entry, user_context, tables, processing_message, submitted,
                   run, query_index, unhandled>>

\* A message arrives from st.chat_input.
ChatInput(user_input) ==
    /\ entry = "career_mate_app"
    /\ run.phase = "idle"
    /\ submitted < MaxMessages
    /\ handle_user_message(user_input)
    /\ submitted' = submitted + 1
    /\ UNCHANGED <<entry, user_context, tables, new_conversation, run,
                   query_index, unhandled>>

\* The processing block takes the pending message and enters Runner.run.
ProcessMessage ==
    /\ entry = "career_mate_app"
    /\ run.phase = "idle"
    /\ processing_message # None
    /\ processing_message[1] # ""
    /\ processing_message' = None
    /\ run' = StartRun(processing_message[1])
    /\ UNCHANGED <<entry, user_context, tables, chat_history, new_conversation,
                   submitted, query_index, unhandled>>

\* Runner.run has returned or raised: the try block appends the formatted
\* result, the except block the error text; then st.rerun().
AppendResponse ==
    /\ entry = "career_mate_app"
    /\ run.phase \in {"completed", "raised"}
    /\ chat_history' = Append(chat_history,
           [role |-> "assistant",
            content |-> IF run.phase = "completed"
                        THEN format_agent_response(run.final_output[1])
                        ELSE "Sorry, I encountered an error"])
    /\ run' = NoRun
    /\ UNCHANGED <<entry, user_context, tables, processing_message,
                   new_conversation, submitted, query_index, unhandled>>

(***************************************************************************)
(* Assinment4_agent.py: main().                                            *)
(***************************************************************************)
\* The loop of main enters Runner.run with the next query.
MainRunQuery ==
    /\ entry = "main"
    /\ run.phase = "idle"
    /\ ~unhandled
    /\ query_index <= Len(queries)
    /\ run' = StartRun(queries[query_index])
    /\ UNCHANGED <<entry, user_context, tables, chat_history, processing_message,
                   new_conversation, submitted, query_index, unhandled>>

\* Runner.run returned: main prints the result and goes on to the next query.
MainPrint ==
    /\ entry = "main"
    /\ run.phase = "completed"
    /\ query_index' = query_index + 1
    /\ run' = NoRun
    /\ UNCHANGED <<entry, user_context, tables, chat_history, processing_message,
                   new_conversation, submitted, unhandled>>

\* Runner.run raised: main has no try block, the exception leaves main and
\* asyncio.run.
MainRaises ==
    /\ entry = "main"
    /\ run.phase = "raised"
    /\ unhandled' = TRUE
    /\ run' = [run EXCEPT !.phase = "propagated"]
    /\ UNCHANGED <<entry, user_context, tables, chat_history, processing_message,
                   new_conversation, submitted, query_index>>

Next ==
    \/ \E skills_text \in SkillsTexts : SaveSkills(skills_text)
    \/ StartNewConversation
    \/ \E user_input \in Messages : ChatInput(user_input)
    \/ ProcessMessage
    \/ AppendResponse
    \/ MainRunQuery
    \/ MainPrint
    \/ MainRaises
    \/ LLMCallsTool
    \/ LLMHandsOff
    \/ LLMFinalOutput
    \/ LLMFails
    \/ MaxTurnsExceeded

Spec == Init /\ [][Next]_vars

(***************************************************************************)
(* Properties.                                                             *)
(***************************************************************************)
Specialists == {skill_gap_agent, job_finder_agent, course_recommender_agent}

\* The recorded calls of one tool in the current run.
CallsOf(tool) ==
    {i \in DOMAIN run.tool_calls : run.tool_calls[i].tool = tool}

\* The position of x in a sequence that holds it.
IndexIn(seq, x) == CHOOSE k \in DOMAIN seq : seq[k] = x

\* sub lists elements of seq, each once, in the order seq has them.
InOrderOf(sub, seq) ==
    /\ \A i \in DOMAIN sub : sub[i] \in Range(seq)
    /\ \A i, j \in DOMAIN sub :
           i < j => IndexIn(seq, sub[i]) < IndexIn(seq, sub[j])

IsError(output) == output.is = "dict" /\ DOMAIN output.v = {"error"}

IsSkillGapAnalysis(output) ==
    /\ output.is = "dict"
    /\ DOMAIN output.v = {"target_job", "user_skills", "required_skills",
                          "missing_skills", "notes"}

\* C1: for a role whose lower-cased name is a key of JOB_SKILLS,
\* get_missing_skills returns missing_skills = required - possessed, in the
\* table's order, empty exactly when every required skill is possessed; for
\* [Python, Git, Data Structures] and 'data scientist' it is
\* [SQL, Statistics, Machine Learning, Pandas, Scikit-learn].
C1_MissingIsRequiredMinusPossessed ==
    \A i \in CallsOf("get_missing_skills") :
        LET call == run.tool_calls[i]
            role == lower(call.arguments)
            possessed == Range(user_context.current_skills)
        IN  role \in DOMAIN JOB_SKILLS =>
                /\ IsSkillGapAnalysis(call.output)
                /\ call.output.v.required_skills = JOB_SKILLS[role]
                /\ Range(call.output.v.missing_skills) =
                       Range(JOB_SKILLS[role]) \ possessed
                /\ InOrderOf(call.output.v.missing_skills, JOB_SKILLS[role])
                /\ (call.output.v.missing_skills = <<>>) <=>
                       (Range(JOB_SKILLS[role]) \subseteq possessed)
                /\ ( /\ user_context.current_skills =
                            <<s_Python, s_Git, s_Data_Structures>>
                     /\ role = s_data_scientist )
                   => call.output.v.missing_skills =
                          <<s_SQL, s_Statistics, s_Machine_Learning, s_Pandas,
                            s_Scikit_learn>>

C1_Witness ==
    \E i \in CallsOf("get_missing_skills") :
        /\ user_context.current_skills = <<s_Python, s_Git, s_Data_Structures>>
        /\ run.tool_calls[i].arguments = s_data_scientist
        /\ IsSkillGapAnalysis(run.tool_calls[i].output)
        /\ Len(run.tool_calls[i].output.v.missing_skills) = 5

\* C2: the role lookup ignores case; get_missing_skills returns an error
\* object exactly when the lower-cased target_job is not a key of JOB_SKILLS,
\* and a SkillGapAnalysis exactly when it is.
C2_ErrorIffRoleAbsent ==
    \A i \in CallsOf("get_missing_skills") :
        LET call == run.tool_calls[i]
        IN  IF lower(call.arguments) \in DOMAIN JOB_SKILLS
            THEN IsSkillGapAnalysis(call.output) /\ ~IsError(call.output)
            ELSE IsError(call.output) /\ ~IsSkillGapAnalysis(call.output)

C2_Witness ==
    \E i, j \in CallsOf("get_missing_skills") :
        /\ run.tool_calls[i].arguments \notin DOMAIN JOB_SKILLS
        /\ lower(run.tool_calls[i].arguments) \in DOMAIN JOB_SKILLS
        /\ IsSkillGapAnalysis(run.tool_calls[i].output)
        /\ lower(run.tool_calls[j].arguments) \notin DOMAIN JOB_SKILLS
        /\ IsError(run.tool_calls[j].output)

\* C3: with no skills find_jobs returns an error and not a list; with skills
\* it returns a list whose every job shares a skill with the user and, when
\* a location is given, has a location containing it, case ignored.
C3_FindJobs ==
    \A i \in CallsOf("find_jobs") :
        LET call == run.tool_calls[i]
            user_skills == user_context.current_skills
        IN  IF user_skills = <<>>
            THEN IsError(call.output)
            ELSE /\ call.output.is = "list"
                 /\ \A k \in DOMAIN call.output.v :
                        LET job == call.output.v[k]
                        IN  /\ Range(job.required_skills) \cap Range(user_skills) # {}
                            /\ call.arguments # None =>
                                   contains(lower(job.location),
                                            lower(call.arguments[1]))

C3_Witness ==
    \E i \in CallsOf("find_jobs") :
        LET call == run.tool_calls[i]
        IN  /\ call.arguments = Some(<<"n", "y">>)
            /\ call.output.is = "list"
            /\ call.output.v # <<>>
            /\ \E k \in DOMAIN call.output.v :
                   ~(Range(call.output.v[k].required_skills)
                         \subseteq Range(user_context.current_skills))

\* The catalog entries of one requested skill, as recommendations.
EntriesOf(skill) ==
    IF lower(skill) \in DOMAIN COURSE_CATALOG
    THEN LET courses == COURSE_CATALOG[lower(skill)]
         IN  [k \in 1..Len(courses) |->
                 [skill_to_learn |-> skill, course_title |-> courses[k].title,
                  platform |-> courses[k].platform, link |-> courses[k].link]]
    ELSE <<>>

RECURSIVE ConcatEntries(_)
ConcatEntries(skills) ==
    IF skills = <<>> THEN <<>>
    ELSE EntriesOf(Head(skills)) \o ConcatEntries(Tail(skills))

\* C4: recommend_courses returns a list, the concatenation in request order
\* of each skill's catalog entries; a skill without an entry adds nothing;
\* with no match the list is empty, not an error; the same request gives
\* the same list again.
C4_RecommendCourses ==
    \A i \in CallsOf("recommend_courses") :
        LET call == run.tool_calls[i]
        IN  /\ call.output.is = "list"
            /\ call.output.v = ConcatEntries(call.arguments)
            /\ (\A k \in DOMAIN call.arguments :
                    lower(call.arguments[k]) \notin DOMAIN COURSE_CATALOG)
                   => call.output.v = <<>>
            /\ \A j \in CallsOf("recommend_courses") :
                   run.tool_calls[j].arguments = call.arguments
                       => run.tool_calls[j].output = call.output

C4_Witness ==
    \E i, j \in CallsOf("recommend_courses") :
        /\ i < j
        /\ run.tool_calls[i].arguments = run.tool_calls[j].arguments
        /\ Len(run.tool_calls[i].arguments) = 3
        /\ run.tool_calls[i].output.is = "list"
        /\ Len(run.tool_calls[i].output.v) = 2
        /\ run.tool_calls[i].output.v[1].skill_to_learn = s_SQL
        /\ run.tool_calls[i].output.v[2].skill_to_learn = s_pandas

\* C5: a tool call, whatever it returns, leaves the context's user_id and
\* current_skills unchanged, and the static tables never change.
C5_ToolsLeaveContextAndTables ==
    [][ /\ tables' = tables
        /\ Len(run'.tool_calls) > Len(run.tool_calls)
               => user_context' = user_context ]_vars

C5_Witness ==
    /\ user_context.current_skills # <<>>
    /\ tables = Tables
    /\ \E i, j \in DOMAIN run.tool_calls :
           /\ IsError(run.tool_calls[i].output)
           /\ IsSkillGapAnalysis(run.tool_calls[j].output)
           /\ run.tool_calls[j].output.v.missing_skills # <<>>

\* C6: a run starts at the dispatcher and hands off at most once, to a
\* specialist; specialists declare no handoffs; the agent that ends the run
\* is the dispatcher or that specialist; only that specialist calls a tool,
\* and only the tool it declares.
C6_OneSpecialistPerTurn ==
    /\ \A s \in Specialists : handoffs(s) = {}
    /\ run.agents # <<>> =>
           /\ run.agents[1] = conversation_agent
           /\ Len(run.agents) <= 2
           /\ Len(run.agents) = 2 => run.agents[2] \in Specialists
           /\ run.current_agent = run.agents[Len(run.agents)]
    /\ \A i \in DOMAIN run.tool_calls :
           LET call == run.tool_calls[i]
           IN  /\ Len(run.agents) = 2
               /\ call.agent = run.agents[2]
               /\ \/ call.agent = skill_gap_agent /\ call.tool = "get_missing_skills"
                  \/ call.agent = job_finder_agent /\ call.tool = "find_jobs"
                  \/ /\ call.agent = course_recommender_agent
                     /\ call.tool = "recommend_courses"

C6_Witness ==
    /\ run.phase = "completed"
    /\ Len(run.agents) = 2
    /\ run.current_agent = job_finder_agent
    /\ run.tool_calls # <<>>

\* C7: a failure anywhere in a turn is caught where the run was started and
\* becomes an error message shown to the user, with no result recorded; it
\* never leaves the program unhandled.
C7_FailureBecomesErrorMessage ==
    [][ (run.phase = "raised" /\ run'.phase # "raised") =>
            /\ ~unhandled'
            /\ chat_history' = Append(chat_history,
                   [role |-> "assistant",
                    content |-> "Sorry, I encountered an error"]) ]_vars

\* C8: with no skills in the context and the request handed to the Job
\* Finder, a run that ends with an accepted final answer ends with an error
\* saying skills are required, not with a job list.
C8_NoSkillsEndsInError ==
    ( /\ run.phase = "completed"
      /\ run.current_agent = job_finder_agent
      /\ user_context.current_skills = <<>>
      /\ \E i \in CallsOf("find_jobs") : IsError(run.tool_calls[i].output) )
    => /\ run.final_output[1].is # "list"
       /\ IsError(run.final_output[1])

\* C9: current_skills never holds a string twice.
C9_SkillsDuplicateFree ==
    \A i, j \in DOMAIN user_context.current_skills :
        i # j => user_context.current_skills[i] # user_context.current_skills[j]

\* C10: with no Start New Conversation, whenever no message is pending and
\* no run is in progress, chat_history alternates user, assistant, ...,
\* ending with an assistant entry.
C10_HistoryAlternates ==
    ( /\ entry = "career_mate_app"
      /\ ~new_conversation
      /\ run.phase = "idle"
      /\ processing_message = None )
    => /\ Len(chat_history) % 2 = 0
       /\ \A i \in DOMAIN chat_history :
              chat_history[i].role = IF i % 2 = 1 THEN "user" ELSE "assistant"
=============================================================================
